---- MODULE Spec2Model ----
(***************************************************************************)
(* A state-machine model of the browser game client in src/game.js         *)
(* (class GameClient and the part of class Avatar that carries state).     *)
(* Every callback of the single-threaded event loop is one atomic action:  *)
(* key events, canvas clicks, WebSocket callbacks, timers, render ticks.   *)
(*                                                                         *)
(* Environment assumptions (the server and the browser are not part of    *)
(* the repository): player ids are opaque values of one type, the id in a  *)
(* player snapshot equals the key it is listed under, a WebSocket delivers *)
(* messages only while OPEN, send() throws while CONNECTING and silently   *)
(* discards while CLOSING/CLOSED, close() on a CONNECTING or OPEN socket   *)
(* moves it to CLOSING and its close event is dispatched later.            *)
(*                                                                         *)
(* The handlers are modelled once.  The environment that drives them is    *)
(* explored in scenarios (variable scenario, fixed for a run): "session"   *)
(* has the keyboard, the game-control commands, the socket and the roster  *)
(* messages; "combat" has canvas clicks, attack results, the timers they   *)
(* arm and the render ticks that count the cooldown down, with pause,      *)
(* restart and the socket.  Spec is the union of the scenarios.            *)
(***************************************************************************)
EXTENDS Integers, Sequences, FiniteSets, TLC

VARIABLES
    gameState,            \* this.gameState: "playing" | "paused" | "stopped"
    pressedKeys,          \* this.pressedKeys: Set of key codes
    heldKeys,             \* environment: directional keys physically held down
    connected,            \* this.connected
    websocket,            \* readyState of the object this.websocket refers to
    staleClosing,         \* replaced sockets whose close event is still to come
    nChannels,            \* WebSocket objects constructed so far
    myPlayerId,           \* this.myPlayerId (NoPlayer = null)
    players,              \* this.players: Map in insertion order, as a sequence
    attackCooldown,       \* this.attackCooldown
    score,                \* this.score
    savedScore,           \* localStorage['mmorpg_score'] (NoRecord = absent)
    viewportInitialized,  \* this.viewportInitialized
    viewportOffsetX,      \* this.viewportOffsetX
    viewportOffsetY,      \* this.viewportOffsetY
    canvas,               \* this.canvas.width / height
    timers,               \* pending setTimeout callbacks, in arming order
    out,                  \* messages handed to websocket.send by the last callback
    frames,               \* Avatar.frames of the roster's avatars, by player id
    drawn,                \* what getCurrentFrame returned for each avatar in the last drawing
    reported,             \* history: ids in the roster the server reported dead and not respawned since
    scenario              \* environment: which events the user and server produce

vars == <<gameState, pressedKeys, heldKeys, connected, websocket, staleClosing,
          nChannels, myPlayerId, players, attackCooldown, score, savedScore,
          viewportInitialized, viewportOffsetX, viewportOffsetY, canvas,
          timers, out, frames, drawn, reported, scenario>>

inputVars == <<pressedKeys, heldKeys>>
connVars == <<connected, websocket, staleClosing, nChannels>>
viewVars == <<viewportInitialized, viewportOffsetX, viewportOffsetY, canvas>>
scoreVars == <<score, savedScore>>
frameVars == <<frames, drawn>>

----------------------------------------------------------------------------
\* Program constants

worldWidth == 2048
worldHeight == 2048
attackCooldownTime == 1000
attackRange == 50
FrameStep == 16
FallbackDelay == 1000
RespawnDelay == 3000
Undefined == -1

keyMap == [ArrowUp |-> "up", ArrowDown |-> "down",
           ArrowLeft |-> "left", ArrowRight |-> "right"]

GameStates == {"playing", "paused", "stopped"}
ReadyStates == {"CONNECTING", "OPEN", "CLOSING", "CLOSED"}

NoPlayer == 0
NoRecord == [kills |-> -1, deaths |-> -1, total |-> -1]
ZeroScore == [kills |-> 0, deaths |-> 0, total |-> 0]

----------------------------------------------------------------------------
\* Bounds of the model

MaxChannels == 2     \* WebSocket objects constructed (1 + restarts)
MaxTimers == 2       \* setTimeout callbacks pending at once
MaxKills == 2        \* cap on score.kills
MaxDeaths == 1       \* cap on score.deaths

----------------------------------------------------------------------------
\* The players Map: a sequence of Avatar records in insertion order

Has(ps, id) == \E i \in 1..Len(ps) : ps[i].id = id

IndexOf(ps, id) == CHOOSE i \in 1..Len(ps) : ps[i].id = id

Get(ps, id) == ps[IndexOf(ps, id)]

\* Map.set: an existing key keeps its place, a new key goes last
MapSet(ps, id, av) ==
    IF Has(ps, id) THEN [ps EXCEPT ![IndexOf(ps, id)] = av]
    ELSE Append(ps, av)

\* Map.delete
MapDelete(ps, id) == SelectSeq(ps, LAMBDA a : a.id # id)

RosterIds(ps) == {ps[i].id : i \in 1..Len(ps)}

----------------------------------------------------------------------------
\* Outbound messages and setTimeout callbacks

Msg(action, direction, targetId) ==
    [action |-> action, direction |-> direction, targetId |-> targetId,
     readyState |-> websocket]

\* WebSocket.send throws InvalidStateError while the socket is CONNECTING
SendThrows == websocket = "CONNECTING"

\* channel is history, like answered: the number of the socket in use when
\* the timer was armed (the callback itself knows nothing of it)
FallbackTimer(targetId) ==
    [kind |-> "fallback", targetId |-> targetId, live |-> TRUE, answered |-> FALSE,
     channel |-> nChannels]

RespawnTimer(targetId) ==
    [kind |-> "respawn", targetId |-> targetId, live |-> TRUE, answered |-> FALSE,
     channel |-> nChannels]

RemoveAt(s, i) == SubSeq(s, 1, i - 1) \o SubSeq(s, i + 1, Len(s))

\* The Avatar objects of `gone` left the Map: a respawn callback that captured
\* one of them keeps a reference to an object the roster no longer holds.
\* faulty variant: leaving the session cancels the pending timers
Detach_Cancel(ts, gone) == <<>>

Detach(ts, gone) ==
    [i \in 1..Len(ts) |->
        IF ts[i].kind = "respawn" /\ ts[i].targetId \in gone
        THEN [ts[i] EXCEPT !.live = FALSE] ELSE ts[i]]

----------------------------------------------------------------------------
\* Score ledger

UpdateTotalScore(sc) == [sc EXCEPT !.total = sc.kills - sc.deaths]

AddKill(sc) == UpdateTotalScore([sc EXCEPT !.kills = sc.kills + 1])

AddDeath(sc) == UpdateTotalScore([sc EXCEPT !.deaths = sc.deaths + 1])

\* A record in storage that JSON.parse rejects
CorruptRecord == [kills |-> -2, deaths |-> -2, total |-> -2]

\* faulty variant: the loaded record is taken as it is
LoadScore_NoRecompute(saved) == IF saved = NoRecord THEN ZeroScore ELSE saved

\* loadScore for a record that parses: the score it leaves in this.score
LoadScore(saved) == IF saved = NoRecord THEN ZeroScore ELSE UpdateTotalScore(saved)

\* loadScore ends with an exception (JSON.parse has no try/catch around it)
LoadScoreThrows(saved) == saved = CorruptRecord

ResetScore ==
    /\ score' = ZeroScore
    /\ savedScore' = ZeroScore
    /\ out' = <<>>
    /\ UNCHANGED <<gameState, inputVars, connVars, myPlayerId, players,
                   attackCooldown, viewVars, timers>>

----------------------------------------------------------------------------
\* Movement input

SendMoveCommand(direction) ==
    IF ~connected THEN <<>> ELSE <<Msg("move", direction, NoPlayer)>>

SendStopCommand ==
    IF ~connected THEN <<>> ELSE <<Msg("stop", "", NoPlayer)>>

\* faulty variant: movement is processed in every game state
HandleKeyDown_Ungated(code) ==
    /\ heldKeys' = IF code \in DOMAIN keyMap THEN heldKeys \cup {code} ELSE heldKeys
    /\ IF code \notin DOMAIN keyMap
       THEN /\ pressedKeys' = pressedKeys
            /\ out' = <<>>
       ELSE /\ pressedKeys' = pressedKeys \cup {code}
            /\ out' = SendMoveCommand(keyMap[code])
    /\ UNCHANGED <<gameState, connVars, myPlayerId, players, attackCooldown,
                   scoreVars, viewVars, timers>>

\* keydown event of a key that is no game-control key (auto-repeat included)
HandleKeyDown(code) ==
    /\ heldKeys' = IF code \in DOMAIN keyMap THEN heldKeys \cup {code} ELSE heldKeys
    /\ IF gameState # "playing" \/ code \notin DOMAIN keyMap
       THEN /\ pressedKeys' = pressedKeys
            /\ out' = <<>>
       ELSE /\ pressedKeys' = pressedKeys \cup {code}
            /\ out' = SendMoveCommand(keyMap[code])
    /\ UNCHANGED <<gameState, connVars, myPlayerId, players, attackCooldown,
                   scoreVars, viewVars, timers>>

\* faulty variant: every directional key-up sends stop
HandleKeyUp_AlwaysStop(code) ==
    /\ code \in DOMAIN keyMap => code \in heldKeys
    /\ heldKeys' = heldKeys \ {code}
    /\ IF gameState # "playing" \/ code \notin DOMAIN keyMap
       THEN /\ pressedKeys' = pressedKeys
            /\ out' = <<>>
       ELSE /\ pressedKeys' = pressedKeys \ {code}
            /\ out' = SendStopCommand
    /\ UNCHANGED <<gameState, connVars, myPlayerId, players, attackCooldown,
                   scoreVars, viewVars, timers>>

\* keyup event: the key was physically down
HandleKeyUp(code) ==
    /\ code \in DOMAIN keyMap => code \in heldKeys
    /\ heldKeys' = heldKeys \ {code}
    /\ IF gameState # "playing" \/ code \notin DOMAIN keyMap
       THEN /\ pressedKeys' = pressedKeys
            /\ out' = <<>>
       ELSE /\ pressedKeys' = pressedKeys \ {code}
            /\ out' = IF pressedKeys' = {} THEN SendStopCommand ELSE <<>>
    /\ UNCHANGED <<gameState, connVars, myPlayerId, players, attackCooldown,
                   scoreVars, viewVars, timers>>

----------------------------------------------------------------------------
\* Game session state machine

\* faulty variant: pausing does not tell the server to stop the movement
PauseGame_NoStop ==
    /\ gameState' = IF gameState # "playing" THEN gameState ELSE "paused"
    /\ out' = <<>>
    /\ UNCHANGED <<inputVars, connVars, myPlayerId, players, attackCooldown,
                   scoreVars, viewVars, timers>>

PauseGame ==
    /\ IF gameState # "playing"
       THEN /\ gameState' = gameState
            /\ out' = <<>>
       ELSE /\ gameState' = "paused"
            /\ out' = SendStopCommand
    /\ UNCHANGED <<inputVars, connVars, myPlayerId, players, attackCooldown,
                   scoreVars, viewVars, timers>>

\* faulty variant: the guard of resumeGame is dropped
ResumeGame_Unguarded ==
    /\ gameState' = "playing"
    /\ out' = <<>>
    /\ UNCHANGED <<inputVars, connVars, myPlayerId, players, attackCooldown,
                   scoreVars, viewVars, timers>>

ResumeGame ==
    /\ gameState' = IF gameState # "paused" THEN gameState ELSE "playing"
    /\ out' = <<>>
    /\ UNCHANGED <<inputVars, connVars, myPlayerId, players, attackCooldown,
                   scoreVars, viewVars, timers>>

TogglePause ==
    IF gameState = "playing" THEN PauseGame
    ELSE IF gameState = "paused" THEN ResumeGame
    ELSE /\ out' = <<>>
         /\ UNCHANGED <<gameState, inputVars, connVars, myPlayerId, players,
                        attackCooldown, scoreVars, viewVars, timers>>

\* WebSocket.close(): a CONNECTING or OPEN socket starts closing
Closed(rs) == IF rs \in {"CONNECTING", "OPEN"} THEN "CLOSING" ELSE rs

\* faulty variant: stop clears the whole roster, the local avatar included
StopGame_ClearAll ==
    /\ gameState' = "stopped"
    /\ websocket' = Closed(websocket)
    /\ players' = <<>>
    /\ timers' = Detach(timers, RosterIds(players))
    /\ out' = <<>>
    /\ UNCHANGED <<inputVars, connected, staleClosing, nChannels, myPlayerId,
                   attackCooldown, scoreVars, viewVars>>

StopGame ==
    /\ gameState' = "stopped"
    /\ websocket' = Closed(websocket)
    /\ players' = SelectSeq(players, LAMBDA a : a.id = myPlayerId)
    /\ timers' = Detach(timers, RosterIds(players) \ {myPlayerId})
    /\ out' = <<>>
    /\ UNCHANGED <<inputVars, connected, staleClosing, nChannels, myPlayerId,
                   attackCooldown, scoreVars, viewVars>>

\* The socket the client held is closed and dropped, a new one is constructed.
\* The dropped socket keeps its onclose handler.
ConnectToServer ==
    /\ staleClosing' = IF websocket # "CLOSED" THEN staleClosing + 1 ELSE staleClosing
    /\ websocket' = "CONNECTING"
    /\ nChannels' = nChannels + 1
    /\ connected' = connected

\* faulty variant: restart keeps the score
RestartGame_KeepScore ==
    /\ nChannels < MaxChannels
    /\ gameState' = "playing"
    /\ pressedKeys' = {}
    /\ attackCooldown' = 0
    /\ players' = <<>>
    /\ timers' = Detach(timers, RosterIds(players))
    /\ myPlayerId' = NoPlayer
    /\ viewportInitialized' = FALSE
    /\ viewportOffsetX' = 0
    /\ viewportOffsetY' = 0
    /\ ConnectToServer
    /\ out' = <<>>
    /\ UNCHANGED <<heldKeys, canvas, scoreVars>>

RestartGame ==
    /\ nChannels < MaxChannels
    /\ gameState' = "playing"
    /\ pressedKeys' = {}
    /\ attackCooldown' = 0
    /\ score' = ZeroScore
    /\ savedScore' = ZeroScore
    /\ players' = <<>>
    /\ timers' = Detach(timers, RosterIds(players))
    /\ myPlayerId' = NoPlayer
    /\ viewportInitialized' = FALSE
    /\ viewportOffsetX' = 0
    /\ viewportOffsetY' = 0
    /\ ConnectToServer
    /\ out' = <<>>
    /\ UNCHANGED <<heldKeys, canvas>>

----------------------------------------------------------------------------
\* Connection session callbacks

\* websocket.onopen of the current socket, which then sends join_game
SocketOpen ==
    /\ websocket = "CONNECTING"
    /\ websocket' = "OPEN"
    /\ connected' = TRUE
    /\ out' = <<[action |-> "join_game", direction |-> "", targetId |-> NoPlayer,
                 readyState |-> "OPEN"]>>
    /\ UNCHANGED <<gameState, inputVars, staleClosing, nChannels, myPlayerId,
                   players, attackCooldown, scoreVars, viewVars, timers>>

\* faulty variant: the close handler opens a new channel by itself
SocketClose_Reconnect ==
    /\ websocket # "CLOSED"
    /\ nChannels < MaxChannels
    /\ websocket' = "CONNECTING"
    /\ nChannels' = nChannels + 1
    /\ connected' = FALSE
    /\ out' = <<>>
    /\ UNCHANGED <<gameState, inputVars, staleClosing, myPlayerId,
                   players, attackCooldown, scoreVars, viewVars, timers>>

\* websocket.onclose of the current socket: the close the client asked for
\* completes, the server closes, or the connection attempt fails
SocketClose ==
    /\ websocket # "CLOSED"
    /\ websocket' = "CLOSED"
    /\ connected' = FALSE
    /\ out' = <<>>
    /\ UNCHANGED <<gameState, inputVars, staleClosing, nChannels, myPlayerId,
                   players, attackCooldown, scoreVars, viewVars, timers>>

\* onclose of a socket that connectToServer closed and replaced
StaleSocketClose ==
    /\ staleClosing > 0
    /\ staleClosing' = staleClosing - 1
    /\ connected' = FALSE
    /\ out' = <<>>
    /\ UNCHANGED <<gameState, inputVars, websocket, nChannels, myPlayerId,
                   players, attackCooldown, scoreVars, viewVars, timers>>

----------------------------------------------------------------------------
\* Avatar state

OrZero(v) == IF v = Undefined THEN 0 ELSE v

Avatar(playerData) ==
    [id |-> playerData.id, username |-> playerData.username,
     x |-> playerData.x, y |-> playerData.y, facing |-> playerData.facing,
     isMoving |-> playerData.isMoving,
     animationFrame |-> OrZero(playerData.animationFrame),
     isDead |-> FALSE]

AvatarUpdate(av, playerData) ==
    [av EXCEPT !.x = playerData.x, !.y = playerData.y,
               !.facing = playerData.facing, !.isMoving = playerData.isMoving,
               !.animationFrame = OrZero(playerData.animationFrame)]

\* getCurrentFrame returns null
NoFrame == [image |-> "null", flipHorizontal |-> FALSE]

\* faulty variant: the flip flag is never set
GetCurrentFrame_NoFlip(av, fr) ==
    LET frameSet == CASE av.facing = "north" -> fr.north
                      [] av.facing = "south" -> fr.south
                      [] av.facing = "east" -> fr.east
                      [] av.facing = "west" -> fr.east
                      [] OTHER -> fr.south
        frameIndex == IF av.isMoving THEN av.animationFrame ELSE 0
    IN  IF Len(frameSet) > 0
        THEN [image |-> frameSet[(frameIndex % Len(frameSet)) + 1],
              flipHorizontal |-> FALSE]
        ELSE NoFrame

\* Avatar.getCurrentFrame for an avatar av whose this.frames is fr; the
\* image arrays are sequences, so JavaScript index k is position k + 1
GetCurrentFrame(av, fr) ==
    LET frameSet == CASE av.facing = "north" -> fr.north
                      [] av.facing = "south" -> fr.south
                      [] av.facing = "east" -> fr.east
                      [] av.facing = "west" -> fr.east
                      [] OTHER -> fr.south
        flipHorizontal == av.facing = "west"
        frameIndex == IF av.isMoving THEN av.animationFrame ELSE 0
    IN  IF Len(frameSet) > 0
        THEN [image |-> frameSet[(frameIndex % Len(frameSet)) + 1],
              flipHorizontal |-> flipHorizontal]
        ELSE NoFrame

\* The avatar loop of render for avatars that are on screen and alive:
\* Avatar.render asks getCurrentFrame for the frame to draw
RenderAvatars ==
    /\ drawn' = [i \in 1..Len(players) |->
                   GetCurrentFrame(players[i], frames[players[i].id])]
    /\ UNCHANGED <<gameState, inputVars, connVars, myPlayerId, players,
                   attackCooldown, scoreVars, viewVars, timers, out, frames>>

SetDead(ps, id, dead) == [ps EXCEPT ![IndexOf(ps, id)].isDead = dead]

----------------------------------------------------------------------------
\* Viewport mapper

Max(a, b) == IF a > b THEN a ELSE b
Min(a, b) == IF a < b THEN a ELSE b

\* faulty variant: the offset is only capped from above
Clamp_NoFloor(v, world, extent) == Min(v, world - extent)

Clamp(v, world, extent) == Max(0, Min(v, world - extent))

\* faulty variant: centering without the once-only guard
CenterViewportOnMyAvatar_Unguarded(ps, me, cv, vp) ==
    IF ~Has(ps, me) THEN vp
    ELSE IF worldWidth <= cv.width /\ worldHeight <= cv.height
         THEN [initialized |-> TRUE, x |-> 0, y |-> 0]
         ELSE [initialized |-> TRUE,
               x |-> Clamp(Get(ps, me).x - cv.width \div 2, worldWidth, cv.width),
               y |-> Clamp(Get(ps, me).y - cv.height \div 2, worldHeight, cv.height)]

\* Canvas extents are even in every input set, so extent / 2 is exact.
CenterViewportOnMyAvatar(ps, me, cv, vp) ==
    IF ~Has(ps, me) THEN vp
    ELSE IF vp.initialized THEN vp
    ELSE IF worldWidth <= cv.width /\ worldHeight <= cv.height
         THEN [initialized |-> TRUE, x |-> 0, y |-> 0]
         ELSE [initialized |-> TRUE,
               x |-> Clamp(Get(ps, me).x - cv.width \div 2, worldWidth, cv.width),
               y |-> Clamp(Get(ps, me).y - cv.height \div 2, worldHeight, cv.height)]

Viewport == [initialized |-> viewportInitialized,
             x |-> viewportOffsetX, y |-> viewportOffsetY]

\* updateViewport, called by the resize listener only
UpdateViewport(ps, me, cv, vp) ==
    IF me # NoPlayer /\ vp.initialized
    THEN IF Has(ps, me)
         THEN [vp EXCEPT
                 !.x = Clamp(Get(ps, me).x - cv.width \div 2, worldWidth, cv.width),
                 !.y = Clamp(Get(ps, me).y - cv.height \div 2, worldHeight, cv.height)]
         ELSE vp
    ELSE vp

\* The resize listener of setupCanvas: the canvas takes the window's size,
\* then updateViewport and render
HandleResize(cv) ==
    /\ canvas' = cv
    /\ LET vp == UpdateViewport(players, myPlayerId, cv, Viewport)
       IN  /\ viewportInitialized' = vp.initialized
           /\ viewportOffsetX' = vp.x
           /\ viewportOffsetY' = vp.y
    /\ out' = <<>>
    /\ UNCHANGED <<gameState, inputVars, connVars, myPlayerId, players,
                   attackCooldown, scoreVars, timers>>

ScreenToWorld(screenX, screenY) ==
    [x |-> screenX + viewportOffsetX, y |-> screenY + viewportOffsetY]

----------------------------------------------------------------------------
\* Combat

\* Math.sqrt is strictly increasing on the integers that occur here, so the
\* distances are compared by their squares.
Dist2(a, x, y) == (a.x - x) * (a.x - x) + (a.y - y) * (a.y - y)

RECURSIVE ScanPlayers(_, _, _, _, _, _, _)
ScanPlayers(ps, me, x, y, i, closestPlayer, closestDistance2) ==
    IF i > Len(ps) THEN closestPlayer
    ELSE IF ps[i].id = me
         THEN ScanPlayers(ps, me, x, y, i + 1, closestPlayer, closestDistance2)
    ELSE IF Dist2(ps[i], x, y) < closestDistance2
         THEN ScanPlayers(ps, me, x, y, i + 1, i, Dist2(ps[i], x, y))
    ELSE ScanPlayers(ps, me, x, y, i + 1, closestPlayer, closestDistance2)

\* faulty variant: an avatar at exactly the attack range is accepted
FindPlayerInRange_Inclusive(ps, me, x, y) ==
    ScanPlayers(ps, me, x, y, 1, 0, attackRange * attackRange + 1)

\* Index in ps of the avatar found, 0 for null
FindPlayerInRange(ps, me, x, y) ==
    ScanPlayers(ps, me, x, y, 1, 0, attackRange * attackRange)

\* The statements of attackPlayer after its connected check
AttackPlayer(targetId) ==
    /\ out' = <<Msg("attack", "", targetId)>>
    /\ IF SendThrows
       THEN UNCHANGED <<attackCooldown, timers>>
       ELSE /\ attackCooldown' = attackCooldownTime
            /\ timers' = Append(timers, FallbackTimer(targetId))

\* faulty variant: the cooldown check is missing
HandleCanvasClick_NoCooldown(clientX, clientY) ==
    /\ IF ~connected \/ myPlayerId = NoPlayer \/ gameState # "playing"
       THEN UNCHANGED <<attackCooldown, timers>> /\ out' = <<>>
       ELSE LET worldPos == ScreenToWorld(clientX, clientY)
                target == FindPlayerInRange(players, myPlayerId, worldPos.x, worldPos.y)
            IN  IF target # 0
                THEN AttackPlayer(players[target].id)
                ELSE UNCHANGED <<attackCooldown, timers>> /\ out' = <<>>
    /\ Len(timers') <= MaxTimers
    /\ UNCHANGED <<gameState, inputVars, connVars, myPlayerId, players,
                   scoreVars, viewVars>>

\* The canvas fills the window, so its bounding rectangle starts at (0, 0).
HandleCanvasClick(clientX, clientY) ==
    /\ IF ~connected \/ myPlayerId = NoPlayer \/ gameState # "playing"
       THEN UNCHANGED <<attackCooldown, timers>> /\ out' = <<>>
       ELSE IF attackCooldown > 0
       THEN UNCHANGED <<attackCooldown, timers>> /\ out' = <<>>
       ELSE LET worldPos == ScreenToWorld(clientX, clientY)
                target == FindPlayerInRange(players, myPlayerId, worldPos.x, worldPos.y)
            IN  IF target # 0
                THEN AttackPlayer(players[target].id)
                ELSE UNCHANGED <<attackCooldown, timers>> /\ out' = <<>>
    /\ Len(timers') <= MaxTimers
    /\ UNCHANGED <<gameState, inputVars, connVars, myPlayerId, players,
                   scoreVars, viewVars>>

\* addKill followed by simulatePlayerDeath(targetId)
KillAndSimulateDeath(targetId, ts) ==
    /\ score' = AddKill(score)
    /\ savedScore' = score'
    /\ IF Has(players, targetId)
       THEN /\ players' = SetDead(players, targetId, TRUE)
            /\ timers' = Append(ts, RespawnTimer(targetId))
       ELSE /\ players' = players
            /\ timers' = ts

\* A timer armed earlier with a delay no longer than this one's has fired before
\* it; one armed earlier with a longer delay may still be pending.
Delay(kind) == IF kind = "fallback" THEN FallbackDelay ELSE RespawnDelay

CanFire(i) ==
    /\ i \in 1..Len(timers)
    /\ \A j \in 1..(i - 1) : Delay(timers[j].kind) > Delay(timers[i].kind)

\* The setTimeout callback armed by attackPlayer
FallbackFires(i) ==
    /\ CanFire(i)
    /\ timers[i].kind = "fallback"
    /\ IF attackCooldown > 0
       THEN KillAndSimulateDeath(timers[i].targetId, RemoveAt(timers, i))
       ELSE /\ timers' = RemoveAt(timers, i)
            /\ UNCHANGED <<players, scoreVars>>
    /\ score'.kills <= MaxKills
    /\ out' = <<>>
    /\ UNCHANGED <<gameState, inputVars, connVars, myPlayerId, attackCooldown,
                   viewVars>>

\* The setTimeout callback armed by simulatePlayerDeath: it clears the flag of
\* the Avatar object it captured, which the roster may no longer hold.
RespawnFires(i) ==
    /\ CanFire(i)
    /\ timers[i].kind = "respawn"
    /\ timers' = RemoveAt(timers, i)
    /\ players' = IF timers[i].live
                  THEN SetDead(players, timers[i].targetId, FALSE)
                  ELSE players
    /\ out' = <<>>
    /\ UNCHANGED <<gameState, inputVars, connVars, myPlayerId, attackCooldown,
                   scoreVars, viewVars>>

----------------------------------------------------------------------------
\* Render loop

\* faulty variant: the tick counts down only while the game is playing
Update_WhilePlaying ==
    /\ attackCooldown' = IF attackCooldown > 0 /\ gameState = "playing"
                         THEN Max(attackCooldown - FrameStep, 0)
                         ELSE attackCooldown
    /\ out' = <<>>
    /\ UNCHANGED <<gameState, inputVars, connVars, myPlayerId, players,
                   scoreVars, viewVars, timers>>

\* faulty variant: the countdown is not floored at 0
Update_NoFloor ==
    /\ attackCooldown' = IF attackCooldown > 0
                         THEN attackCooldown - FrameStep
                         ELSE attackCooldown
    /\ out' = <<>>
    /\ UNCHANGED <<gameState, inputVars, connVars, myPlayerId, players,
                   scoreVars, viewVars, timers>>

Update ==
    /\ attackCooldown' = IF attackCooldown > 0
                         THEN Max(attackCooldown - FrameStep, 0)
                         ELSE attackCooldown
    /\ out' = <<>>
    /\ UNCHANGED <<gameState, inputVars, connVars, myPlayerId, players,
                   scoreVars, viewVars, timers>>

----------------------------------------------------------------------------
\* Inbound messages (websocket.onmessage -> handleMessage), socket OPEN

RECURSIVE JoinRoster(_, _)
JoinRoster(ps, pds) ==
    IF pds = <<>> THEN ps
    ELSE LET pd == Head(pds)
         IN  JoinRoster(IF Has(ps, pd.id)
                        THEN MapSet(ps, pd.id, AvatarUpdate(Get(ps, pd.id), pd))
                        ELSE MapSet(ps, pd.id, Avatar(pd)),
                        Tail(pds))

HandleJoinGame(message) ==
    /\ websocket = "OPEN"
    /\ IF message.success
       THEN /\ myPlayerId' = message.playerId
            /\ players' = JoinRoster(players, message.players)
            /\ LET vp == CenterViewportOnMyAvatar(players', myPlayerId', canvas, Viewport)
               IN  /\ viewportInitialized' = vp.initialized
                   /\ viewportOffsetX' = vp.x
                   /\ viewportOffsetY' = vp.y
       ELSE UNCHANGED <<myPlayerId, players, viewportInitialized,
                        viewportOffsetX, viewportOffsetY>>
    /\ out' = <<>>
    /\ UNCHANGED <<gameState, inputVars, connVars, attackCooldown, scoreVars,
                   canvas, timers>>

\* Always a new Avatar object: one already in the Map under that id is dropped
HandlePlayerJoined(playerData) ==
    /\ websocket = "OPEN"
    /\ players' = MapSet(players, playerData.id, Avatar(playerData))
    /\ timers' = Detach(timers, {playerData.id})
    /\ out' = <<>>
    /\ UNCHANGED <<gameState, inputVars, connVars, myPlayerId, attackCooldown,
                   scoreVars, viewVars>>

\* faulty variant: a snapshot for an unknown id creates an avatar
RECURSIVE MoveRoster_Adds(_, _)
MoveRoster_Adds(ps, pds) ==
    IF pds = <<>> THEN ps
    ELSE LET pd == Head(pds)
         IN  MoveRoster_Adds(IF Has(ps, pd.id)
                             THEN MapSet(ps, pd.id, AvatarUpdate(Get(ps, pd.id), pd))
                             ELSE MapSet(ps, pd.id, Avatar(pd)),
                             Tail(pds))

RECURSIVE MoveRoster(_, _)
MoveRoster(ps, pds) ==
    IF pds = <<>> THEN ps
    ELSE LET pd == Head(pds)
         IN  MoveRoster(IF Has(ps, pd.id)
                        THEN MapSet(ps, pd.id, AvatarUpdate(Get(ps, pd.id), pd))
                        ELSE ps,
                        Tail(pds))

HandlePlayersMoved(pds) ==
    /\ websocket = "OPEN"
    /\ players' = MoveRoster(players, pds)
    /\ out' = <<>>
    /\ UNCHANGED <<gameState, inputVars, connVars, myPlayerId, attackCooldown,
                   scoreVars, viewVars, timers>>

HandlePlayerLeft(playerId) ==
    /\ websocket = "OPEN"
    /\ players' = MapDelete(players, playerId)
    /\ timers' = Detach(timers, {playerId})
    /\ out' = <<>>
    /\ UNCHANGED <<gameState, inputVars, connVars, myPlayerId, attackCooldown,
                   scoreVars, viewVars>>

\* History only: the oldest fallback timer for this target that the server has
\* not answered yet is marked answered.
MarkAnswered(ts, targetId) ==
    LET open == {i \in 1..Len(ts) : /\ ts[i].kind = "fallback"
                                    /\ ts[i].targetId = targetId
                                    /\ ~ts[i].answered}
    IN  IF open = {} THEN ts
        ELSE LET i == CHOOSE k \in open : \A l \in open : k <= l
             IN  [ts EXCEPT ![i].answered = TRUE]

HandleAttack(message) ==
    /\ websocket = "OPEN"
    /\ IF message.success
       THEN IF message.kill
            THEN /\ score' = AddKill(score)
                 /\ savedScore' = score'
                 /\ players' = players
                 /\ timers' = MarkAnswered(timers, message.targetId)
            ELSE KillAndSimulateDeath(message.targetId,
                                      MarkAnswered(timers, message.targetId))
       ELSE /\ timers' = MarkAnswered(timers, message.targetId)
            /\ UNCHANGED <<players, scoreVars>>
    /\ score'.kills <= MaxKills
    /\ Len(timers') <= MaxTimers
    /\ out' = <<>>
    /\ UNCHANGED <<gameState, inputVars, connVars, myPlayerId, attackCooldown,
                   viewVars>>

HandlePlayerDied(playerId) ==
    /\ websocket = "OPEN"
    /\ IF Has(players, playerId)
       THEN /\ players' = SetDead(players, playerId, TRUE)
            /\ IF playerId = myPlayerId
               THEN score' = AddDeath(score) /\ savedScore' = score'
               ELSE UNCHANGED scoreVars
       ELSE UNCHANGED <<players, scoreVars>>
    /\ score'.deaths <= MaxDeaths
    /\ out' = <<>>
    /\ UNCHANGED <<gameState, inputVars, connVars, myPlayerId, attackCooldown,
                   viewVars, timers>>

HandlePlayerRespawned(playerId, x, y) ==
    /\ websocket = "OPEN"
    /\ players' = IF Has(players, playerId)
                  THEN [players EXCEPT ![IndexOf(players, playerId)] =
                           [@ EXCEPT !.isDead = FALSE, !.x = x, !.y = y]]
                  ELSE players
    /\ out' = <<>>
    /\ UNCHANGED <<gameState, inputVars, connVars, myPlayerId, attackCooldown,
                   scoreVars, viewVars, timers>>

\* faulty variant: a message with an unknown tag ends the session
HandleUnknownMessage_Drops ==
    /\ websocket = "OPEN"
    /\ websocket' = "CLOSING"
    /\ connected' = FALSE
    /\ out' = <<>>
    /\ UNCHANGED <<gameState, inputVars, staleClosing, nChannels, myPlayerId,
                   players, attackCooldown, scoreVars, viewVars, timers>>

\* default branch of handleMessage
HandleUnknownMessage ==
    /\ websocket = "OPEN"
    /\ out' = <<>>
    /\ UNCHANGED <<gameState, inputVars, connVars, myPlayerId, players,
                   attackCooldown, scoreVars, viewVars, timers>>

----------------------------------------------------------------------------
\* Inputs

Snap(id, x, y) ==
    [id |-> id, username |-> "player", x |-> x, y |-> y, facing |-> "south",
     isMoving |-> FALSE, animationFrame |-> Undefined]

Keys == {"ArrowUp", "ArrowLeft", "KeyA"}

JoinMessages ==
    {[success |-> TRUE, playerId |-> 1, players |-> <<Snap(1, 0, 0), Snap(2, 40, 0)>>],
     [success |-> FALSE, playerId |-> 1, players |-> <<>>]}

AttackMessages ==
    [success : BOOLEAN, targetId : {2}, kill : BOOLEAN]

Clicks == {<<40, 0>>, <<500, 0>>}

CanvasSize == [width |-> 800, height |-> 600]

\* Windows of the viewport scenario: smaller than the world, larger than it
\* in one dimension, larger in both
ViewCanvasSizes ==
    {[width |-> 800, height |-> 600], [width |-> 1600, height |-> 1200],
     [width |-> 2400, height |-> 600], [width |-> 2400, height |-> 2400]}

\* Where the server puts the local player in the viewport scenario
ViewPositions == {<<1000, 1000>>, <<0, 0>>, <<2000, 2000>>}

ViewJoinMessages ==
    {[success |-> TRUE, playerId |-> 1,
      players |-> <<Snap(1, p[1], p[2]), Snap(2, 40, 0)>>] : p \in ViewPositions}
    \cup {[success |-> TRUE, playerId |-> 1, players |-> <<Snap(2, 40, 0)>>],
          [success |-> FALSE, playerId |-> NoPlayer, players |-> <<>>]}

Scenarios == {"session", "combat"}

----------------------------------------------------------------------------
\* The client after construction: new GameClient() has run init(), the first
\* socket is connecting.

ConstructedWith(saved, cv) ==
    /\ gameState = "playing"
    /\ pressedKeys = {}
    /\ heldKeys = {}
    /\ connected = FALSE
    /\ websocket = "CONNECTING"
    /\ staleClosing = 0
    /\ nChannels = 1
    /\ myPlayerId = NoPlayer
    /\ players = <<>>
    /\ attackCooldown = 0
    /\ score = LoadScore(saved)
    /\ savedScore = saved
    /\ viewportInitialized = FALSE
    /\ viewportOffsetX = 0
    /\ viewportOffsetY = 0
    /\ canvas = cv
    /\ timers = <<>>
    /\ out = <<>>
    /\ frames = <<>>
    /\ drawn = <<>>
    /\ reported = {}

\* Nothing in storage, the canvas of the session and combat scenarios
Constructed == ConstructedWith(NoRecord, CanvasSize)

Init ==
    \/ Constructed /\ scenario \in Scenarios \cup {"death"}
    \/ scenario = "viewport" /\ \E cv \in ViewCanvasSizes : ConstructedWith(NoRecord, cv)

KeyDown == \E code \in Keys : HandleKeyDown(code)
KeyUp == \E code \in Keys : HandleKeyUp(code)
CanvasClick == \E c \in Clicks : HandleCanvasClick(c[1], c[2])
FallbackTimerFires == \E i \in 1..Len(timers) : FallbackFires(i)
RespawnTimerFires == \E i \in 1..Len(timers) : RespawnFires(i)
JoinGameMessage == \E m \in JoinMessages : HandleJoinGame(m)
PlayerJoinedMessage == HandlePlayerJoined(Snap(2, 40, 0))
PlayersMovedMessage == HandlePlayersMoved(<<Snap(2, 100, 0), Snap(3, 0, 0)>>)
PlayerLeftMessage == HandlePlayerLeft(2)
AttackMessage == \E m \in AttackMessages : HandleAttack(m)
PlayerDiedMessage == \E id \in {1, 2} : HandlePlayerDied(id)
PlayerRespawnedMessage == HandlePlayerRespawned(2, 40, 0)

InSession == scenario = "session" /\ UNCHANGED <<scenario, frameVars, reported>>
InCombat == scenario = "combat" /\ UNCHANGED <<scenario, frameVars, reported>>
InEither == scenario \in Scenarios /\ UNCHANGED <<scenario, frameVars, reported>>
InViewport == scenario = "viewport" /\ UNCHANGED <<scenario, frameVars, reported>>

InDeath == scenario = "death" /\ UNCHANGED <<scenario, frameVars>>

\* Events of the death scenario; reported follows what the server has said
\* about the players in the roster
SimulatedDeathMessage ==
    /\ HandleAttack([success |-> TRUE, targetId |-> 2, kill |-> FALSE])
    /\ UNCHANGED reported
DeathReported ==
    /\ HandlePlayerDied(2)
    /\ reported' = IF Has(players, 2) THEN reported \cup {2} ELSE reported
RespawnReported ==
    /\ HandlePlayerRespawned(2, 40, 0)
    /\ reported' = reported \ {2}
LeftReported ==
    /\ HandlePlayerLeft(2)
    /\ reported' = reported \ {2}
SimulatedRespawn == RespawnTimerFires /\ UNCHANGED reported
\* player_joined for player 2: the Avatar object the report was about, if
\* any, is no longer in the roster
DeathJoinedMessage ==
    /\ HandlePlayerJoined(Snap(2, 40, 0))
    /\ reported' = reported \ {2}

\* players_moved messages of the death scenario: player 2 walking west under
\* another name at animation frame 5, or standing with no animationFrame in
\* the snapshot; player 3 is unknown to the roster
DeathMovedMessages ==
    {<<[id |-> 2, username |-> "renamed", x |-> 70, y |-> 90, facing |-> "west",
        isMoving |-> TRUE, animationFrame |-> 5], Snap(3, 0, 0)>>,
     <<Snap(3, 0, 0), Snap(2, 40, 0)>>}
DeathMovedMessage ==
    /\ \E pds \in DeathMovedMessages : HandlePlayersMoved(pds)
    /\ UNCHANGED reported
DeathSocketOpen == SocketOpen /\ UNCHANGED reported
DeathJoinGameMessage == JoinGameMessage /\ UNCHANGED reported

Resize == \E cv \in ViewCanvasSizes : HandleResize(cv)
ViewJoinGameMessage == \E m \in ViewJoinMessages : HandleJoinGame(m)
LocalMovedMessage == HandlePlayersMoved(<<Snap(1, 2000, 0)>>)
LocalRespawnedMessage == HandlePlayerRespawned(1, 0, 2000)
LocalLeftMessage == HandlePlayerLeft(1)

Next ==
    \/ InSession /\ KeyDown
    \/ InSession /\ KeyUp
    \/ InSession /\ PauseGame
    \/ InSession /\ ResumeGame
    \/ InEither /\ TogglePause
    \/ InEither /\ StopGame
    \/ InEither /\ RestartGame
    \/ InSession /\ ResetScore
    \/ InCombat /\ CanvasClick
    \/ InCombat /\ FallbackTimerFires
    \/ InCombat /\ RespawnTimerFires
    \/ InEither /\ Update
    \/ InEither /\ SocketOpen
    \/ InEither /\ SocketClose
    \/ InEither /\ StaleSocketClose
    \/ InEither /\ JoinGameMessage
    \/ InSession /\ PlayerJoinedMessage
    \/ InSession /\ PlayersMovedMessage
    \/ InSession /\ PlayerLeftMessage
    \/ InCombat /\ AttackMessage
    \/ InSession /\ PlayerDiedMessage
    \/ InSession /\ PlayerRespawnedMessage
    \/ InSession /\ HandleUnknownMessage
    \/ InDeath /\ DeathSocketOpen
    \/ InDeath /\ DeathJoinGameMessage
    \/ InDeath /\ SimulatedDeathMessage
    \/ InDeath /\ DeathReported
    \/ InDeath /\ RespawnReported
    \/ InDeath /\ LeftReported
    \/ InDeath /\ SimulatedRespawn
    \/ InDeath /\ DeathMovedMessage
    \/ InDeath /\ DeathJoinedMessage
    \/ InViewport /\ Resize
    \/ InViewport /\ SocketOpen
    \/ InViewport /\ ViewJoinGameMessage
    \/ InViewport /\ LocalMovedMessage
    \/ InViewport /\ LocalRespawnedMessage
    \/ InViewport /\ LocalLeftMessage
    \/ InViewport /\ StopGame
    \/ InViewport /\ RestartGame
    \/ InViewport /\ Update

Spec == Init /\ [][Next]_vars

----------------------------------------------------------------------------
\* Claims

\* C1: gameState is one of playing, paused, stopped and starts as playing.  It
\* changes only playing -> paused by the pause command, paused -> playing by
\* the resume command, playing/paused -> stopped by the stop command and
\* -> playing by the restart command; no message, timer, tick or other event
\* changes it, and from stopped only restart leaves.
claim_C1 ==
    /\ gameState = "playing"
    /\ [][/\ gameState' \in GameStates
          /\ gameState' # gameState =>
                \/ /\ gameState = "playing" /\ gameState' = "paused"
                   /\ PauseGame \/ TogglePause
                \/ /\ gameState = "paused" /\ gameState' = "playing"
                   /\ ResumeGame \/ TogglePause
                \/ /\ gameState \in {"playing", "paused"} /\ gameState' = "stopped"
                   /\ StopGame
                \/ /\ gameState' = "playing"
                   /\ RestartGame
          /\ gameState = "stopped" /\ TogglePause => gameState' = "stopped"]_vars

\* C1 witness: the game was stopped with timers pending and a cooldown running
witness_C1 ==
    gameState = "stopped" /\ timers # <<>> /\ attackCooldown > 0

----------------------------------------------------------------------------
Sent(action) == \E k \in 1..Len(out) : out[k].action = action

StopMessage == <<Msg("stop", "", NoPlayer)>>

NothingButOut ==
    UNCHANGED <<gameState, inputVars, connVars, myPlayerId, players,
                attackCooldown, scoreVars, viewVars, timers>>

\* C2: a move action is sent only while playing; an attack action is sent only
\* while playing, with the connected flag set and the local player id known; a
\* directional key-down while paused or stopped sends nothing and leaves the
\* pressed-key set as it was.
claim_C2 ==
    /\ [](Sent("move") => gameState = "playing")
    /\ [](Sent("attack") =>
            gameState = "playing" /\ connected /\ myPlayerId # NoPlayer)
    /\ [][\A code \in DOMAIN keyMap :
            HandleKeyDown(code) /\ gameState # "playing" =>
                out' = <<>> /\ pressedKeys' = pressedKeys]_vars

\* C2 witness: a directional key went down while the game was paused and was
\* not taken into the pressed-key set
witness_C2 ==
    gameState = "paused" /\ heldKeys # {} /\ pressedKeys = {} /\ connected

\* C3 as stated: on a directional key-up while playing and connected, a stop
\* is sent only when that key-up takes the pressed-key set from non-empty to
\* empty, and a key-up of a key that is not in the set sends nothing.
counter_C3 ==
    [][\A code \in DOMAIN keyMap :
          HandleKeyUp(code) /\ gameState = "playing" /\ connected =>
              /\ Sent("stop")' => pressedKeys # {} /\ pressedKeys' = {}
              /\ code \notin pressedKeys => out' = <<>>]_vars

\* C3 amended: on a directional key-up while playing and connected, exactly one
\* stop is handed to the socket when the pressed-key set is empty after the
\* key is removed, and nothing otherwise.  So a key pressed and released while
\* no other key is in the set gives one move, then one stop; releasing one of
\* two keys of the set sends no stop; a key-up of a key that is not in the set
\* sends nothing while the set is non-empty and one stop while it is empty.
claim_C3 ==
    [][\A code \in DOMAIN keyMap :
          /\ HandleKeyDown(code) /\ gameState = "playing" /\ connected =>
                /\ out' = <<Msg("move", keyMap[code], NoPlayer)>>
                /\ pressedKeys' = pressedKeys \cup {code}
          /\ HandleKeyUp(code) /\ gameState = "playing" /\ connected =>
                /\ pressedKeys' = pressedKeys \ {code}
                /\ pressedKeys' = {} => out' = StopMessage
                /\ pressedKeys' # {} => out' = <<>>]_vars

\* C3 witness: the last key of the set was released and one stop went out
witness_C3 ==
    /\ gameState = "playing" /\ connected /\ websocket = "OPEN"
    /\ pressedKeys = {} /\ heldKeys = {} /\ out = StopMessage

\* C4: pausing from playing while connected and moving sends exactly one stop
\* and sets gameState to paused; the resume that follows sets it back to
\* playing and sends nothing; a pause command outside playing and a resume
\* command outside paused send nothing and change nothing.
claim_C4 ==
    [][/\ (PauseGame \/ TogglePause) /\ gameState = "playing" /\ connected
              /\ pressedKeys # {} =>
            gameState' = "paused" /\ out' = StopMessage
       /\ (ResumeGame \/ TogglePause) /\ gameState = "paused" =>
            gameState' = "playing" /\ out' = <<>>
       /\ PauseGame /\ gameState # "playing" => out' = <<>> /\ NothingButOut
       /\ ResumeGame /\ gameState # "paused" => out' = <<>> /\ NothingButOut]_vars

\* C4 witness: paused while a key was in the set, one stop went out
witness_C4 ==
    gameState = "paused" /\ pressedKeys # {} /\ out = StopMessage

----------------------------------------------------------------------------
NoNewDeath ==
    /\ Len(players') = Len(players)
    /\ \A k \in 1..Len(players) : players'[k].isDead => players[k].isDead

\* C5 as stated: when the server's attack-result for an attack has arrived
\* before that attack's fallback timer fires, the timer synthesizes nothing: it
\* credits no kill and marks no avatar dead.
counter_C5 ==
    [][\A i \in 1..Len(timers) :
          FallbackFires(i) /\ timers[i].answered =>
              score' = score /\ NoNewDeath]_vars

\* C6 as stated, for runs without a restart: when the fallback timer of an
\* attack the server has not answered fires, kills grows by exactly one and
\* the target, if still in the roster, is marked dead, whatever render ticks
\* came before the timer.
counter_C6 ==
    [][\A i \in 1..Len(timers) :
          FallbackFires(i) /\ ~timers[i].answered /\ nChannels = 1 =>
              /\ score'.kills = score.kills + 1
              /\ Has(players, timers[i].targetId) =>
                    Get(players', timers[i].targetId).isDead]_vars

\* C7: a canvas click while the cooldown runs, or with no avatar in range of
\* the click, sends nothing, arms no timer and changes nothing; an attack is
\* sent only from a state whose cooldown is 0, and the cooldown goes down only
\* by render ticks and by restart.
claim_C7 ==
    [][/\ \A c \in Clicks :
            /\ HandleCanvasClick(c[1], c[2])
            /\ \/ attackCooldown > 0
               \/ FindPlayerInRange(players, myPlayerId,
                                    ScreenToWorld(c[1], c[2]).x,
                                    ScreenToWorld(c[1], c[2]).y) = 0
            => out' = <<>> /\ NothingButOut
       /\ Sent("attack")' => attackCooldown = 0
       /\ attackCooldown' < attackCooldown => Update \/ RestartGame]_vars

\* C7 witness: with no restart, a second attack went out after render ticks
\* counted the first one's cooldown down, the first fallback timer still pending
witness_C7 ==
    /\ Sent("attack") /\ attackCooldown = attackCooldownTime /\ nChannels = 1
    /\ Len(timers) = 2 /\ timers[1].kind = "fallback" /\ timers[2].kind = "fallback"

\* C9 as stated: every action handed to websocket.send goes to an open socket
counter_C9 ==
    \A k \in 1..Len(out) : out[k].readyState = "OPEN"

\* C10 as stated: once the current socket's open callback has run, the
\* connected flag stays set until that socket itself closes
counter_C10 ==
    websocket = "OPEN" => connected

----------------------------------------------------------------------------
\* Click targeting over a grid of rosters: the client has joined as player 1
\* standing at origin o, the viewport was centered on it, opponents 2 and 3
\* stand at o + p for grid points p, in every iteration order of the Map.

TargetOrigins == {<<0, 0>>, <<1000, 1000>>}

TargetGrid == {0, 40, 49, 50, 89, 90} \X {0, 30, 40}

\* screen positions: the origin and 40 to its right, for either origin
TargetClicks == {<<0, 0>>, <<40, 0>>, <<400, 300>>, <<440, 300>>}

Placed(id, o, p) == Avatar(Snap(id, o[1] + p[1], o[2] + p[2]))

TargetRosters(o) ==
    LET me == Placed(1, o, <<0, 0>>)
    IN  {<<me>>}
        \cup {<<me, Placed(id, o, p)>> : id \in {2, 3}, p \in TargetGrid}
        \cup {<<Placed(id, o, p), me>> : id \in {2, 3}, p \in TargetGrid}
        \cup UNION {{<<me, Placed(2, o, p), Placed(3, o, q)>>,
                     <<me, Placed(3, o, q), Placed(2, o, p)>>,
                     <<Placed(2, o, p), me, Placed(3, o, q)>>,
                     <<Placed(3, o, q), me, Placed(2, o, p)>>,
                     <<Placed(2, o, p), Placed(3, o, q), me>>,
                     <<Placed(3, o, q), Placed(2, o, p), me>>} :
                    p \in TargetGrid, q \in TargetGrid}

InitTarget ==
    /\ scenario = "target"
    /\ gameState = "playing"
    /\ pressedKeys = {}
    /\ heldKeys = {}
    /\ connected = TRUE
    /\ websocket = "OPEN"
    /\ staleClosing = 0
    /\ nChannels = 1
    /\ myPlayerId = 1
    /\ attackCooldown = 0
    /\ score = ZeroScore
    /\ savedScore = NoRecord
    /\ canvas = CanvasSize
    /\ timers = <<>>
    /\ out = <<>>
    /\ frames = <<>>
    /\ drawn = <<>>
    /\ reported = {}
    /\ \E o \in TargetOrigins :
          /\ players \in TargetRosters(o)
          /\ LET vp == CenterViewportOnMyAvatar(players, 1, canvas,
                          [initialized |-> FALSE, x |-> 0, y |-> 0])
             IN  /\ viewportInitialized = vp.initialized
                 /\ viewportOffsetX = vp.x
                 /\ viewportOffsetY = vp.y

NextTarget ==
    /\ UNCHANGED <<scenario, frameVars, reported>>
    /\ \E c \in TargetClicks : HandleCanvasClick(c[1], c[2])

SpecTarget == InitTarget /\ [][NextTarget]_vars

\* The avatars a click at world position (wx, wy) may hit
InRange(wx, wy) ==
    {k \in 1..Len(players) : /\ players[k].id # myPlayerId
                             /\ Dist2(players[k], wx, wy) < attackRange * attackRange}

\* C8: the click's target is the avatar other than the local player's that is
\* nearest to the clicked world position among those strictly nearer than the
\* attack range 50, the first in iteration order among equally near ones, and
\* there is no target when no avatar is in range.  With player 1 at (0,0),
\* player 2 at (40,0) and a click at world (40,0) the attack names player 2.
claim_C8 ==
    [][\A c \in TargetClicks :
          /\ HandleCanvasClick(c[1], c[2])
          /\ connected /\ gameState = "playing" /\ attackCooldown = 0
          => LET wx == c[1] + viewportOffsetX
                 wy == c[2] + viewportOffsetY
                 cands == InRange(wx, wy)
             IN  /\ cands = {} => out' = <<>>
                 /\ cands # {} =>
                       \E k \in cands :
                          /\ \A j \in cands :
                                \/ Dist2(players[k], wx, wy) < Dist2(players[j], wx, wy)
                                \/ /\ Dist2(players[k], wx, wy) = Dist2(players[j], wx, wy)
                                   /\ k <= j
                          /\ out' = <<Msg("attack", "", players[k].id)>>
                 /\ /\ players = <<Placed(1, <<0, 0>>, <<0, 0>>),
                                   Placed(2, <<0, 0>>, <<40, 0>>)>>
                    /\ c = <<40, 0>>
                    => out' = <<Msg("attack", "", 2)>>]_vars

\* C8 witness: the claim's scenario after the click at (40,0)
witness_C8 ==
    /\ players = <<Placed(1, <<0, 0>>, <<0, 0>>), Placed(2, <<0, 0>>, <<40, 0>>)>>
    /\ out = <<Msg("attack", "", 2)>>
    /\ attackCooldown = attackCooldownTime

----------------------------------------------------------------------------
\* Connection and session commands

\* C11: the client never reconnects by itself.  One channel exists after
\* start-up, the channel count changes only in a restart step and every
\* restart adds exactly one (so the count is one plus the number of
\* restarts); once the current channel has closed, connected is false and
\* the channel stays closed with connected false until a restart.
claim_C11 ==
    /\ nChannels = 1
    /\ [][nChannels' # nChannels => RestartGame]_vars
    /\ [][RestartGame => nChannels' = nChannels + 1]_vars
    /\ [](websocket = "CLOSED" => ~connected)
    /\ [][websocket = "CLOSED" /\ ~RestartGame
             => websocket' = "CLOSED" /\ ~connected']_vars

\* C11 witness: the channel opened by a restart has closed unexpectedly
\* while the game is being played
witness_C11 ==
    /\ nChannels = 2
    /\ websocket = "CLOSED"
    /\ staleClosing = 0
    /\ ~connected
    /\ gameState = "playing"
    /\ myPlayerId # NoPlayer

\* C12: right after a stop command, whatever the game state was, the game
\* state is stopped, the current socket has been asked to close, the roster
\* holds no avatar other than the local player's, and the local avatar (when
\* the roster had it), the score, the cooldown and the viewport offset are
\* what they were.
claim_C12 ==
    [][StopGame =>
         /\ gameState' = "stopped"
         /\ websocket' \in {"CLOSING", "CLOSED"}
         /\ RosterIds(players') \subseteq {myPlayerId}
         /\ Has(players, myPlayerId)
              => /\ Has(players', myPlayerId)
                 /\ Get(players', myPlayerId) = Get(players, myPlayerId)
         /\ score' = score
         /\ savedScore' = savedScore
         /\ attackCooldown' = attackCooldown
         /\ viewportOffsetX' = viewportOffsetX
         /\ viewportOffsetY' = viewportOffsetY]_vars

\* C12 witness: stopped in the middle of a fight, with the local avatar alone
\* in the roster, the socket closing and the cooldown still running
witness_C12 ==
    /\ gameState = "stopped"
    /\ websocket = "CLOSING"
    /\ myPlayerId # NoPlayer
    /\ RosterIds(players) = {myPlayerId}
    /\ attackCooldown > 0
    /\ score.kills > 0

\* C13: right after a restart command the game state is playing, the
\* cooldown is 0, the score is {0,0,0} in memory and in storage, the centering
\* guard is re-armed, the roster holds no avatar at all (so none but the local
\* player's), the socket the client held has been told to close (its close
\* event is pending unless it had closed already) and a new socket is
\* connecting.
claim_C13 ==
    [][RestartGame =>
         /\ gameState' = "playing"
         /\ attackCooldown' = 0
         /\ score' = ZeroScore
         /\ savedScore' = ZeroScore
         /\ viewportInitialized' = FALSE
         /\ players' = <<>>
         /\ staleClosing' = staleClosing + (IF websocket = "CLOSED" THEN 0 ELSE 1)
         /\ websocket' = "CONNECTING"
         /\ nChannels' = nChannels + 1]_vars

\* C13 witness: the state right after a restart issued in the middle of a
\* fight (a timer of the fight is still pending) while the first socket was
\* still alive
witness_C13 ==
    /\ timers # <<>>
    /\ nChannels = 2
    /\ websocket = "CONNECTING"
    /\ staleClosing = 1
    /\ gameState = "playing"
    /\ attackCooldown = 0
    /\ score = ZeroScore
    /\ savedScore = ZeroScore
    /\ ~viewportInitialized
    /\ players = <<>>

----------------------------------------------------------------------------
\* Start-up and the score ledger: the client is constructed over whatever
\* record the storage holds, then kills, deaths, resets, restarts and the
\* other commands follow.

\* Records in storage that parse, with integer counters; the stored total
\* need not agree with the counters
SavedRecords == [kills : {0, 1}, deaths : {0, 1}, total : {-1, 0, 1, 7}]

\* new GameClient() over a record loadScore throws on: the constructor ends
\* at the loadScore call, before gameState is assigned and init() runs, so no
\* socket is made and no listener or render loop is installed
AbortedConstruction(saved, cv) ==
    /\ gameState = "undefined"
    /\ pressedKeys = {}
    /\ heldKeys = {}
    /\ connected = FALSE
    /\ websocket = "null"
    /\ staleClosing = 0
    /\ nChannels = 0
    /\ myPlayerId = NoPlayer
    /\ players = <<>>
    /\ attackCooldown = 0
    /\ score = ZeroScore
    /\ savedScore = saved
    /\ viewportInitialized = FALSE
    /\ viewportOffsetX = 0
    /\ viewportOffsetY = 0
    /\ canvas = cv
    /\ timers = <<>>
    /\ out = <<>>
    /\ frames = <<>>
    /\ drawn = <<>>
    /\ reported = {}

InitScore ==
    /\ scenario = "score"
    /\ \E saved \in SavedRecords \cup {NoRecord, CorruptRecord} :
          IF LoadScoreThrows(saved)
          THEN AbortedConstruction(saved, CanvasSize)
          ELSE ConstructedWith(saved, CanvasSize)

\* init() has run: the listeners, the socket and the render loop exist
Started == nChannels > 0

InScore == scenario = "score" /\ Started /\ UNCHANGED <<scenario, frameVars, reported>>

KillMessage == HandleAttack([success |-> TRUE, targetId |-> 2, kill |-> TRUE])
LocalDiedMessage == HandlePlayerDied(1)

NextScore ==
    \/ InScore /\ SocketOpen
    \/ InScore /\ SocketClose
    \/ InScore /\ JoinGameMessage
    \/ InScore /\ KillMessage
    \/ InScore /\ LocalDiedMessage
    \/ InScore /\ ResetScore
    \/ InScore /\ RestartGame
    \/ InScore /\ TogglePause
    \/ InScore /\ StopGame
    \/ InScore /\ Update

SpecScore == InitScore /\ [][NextScore]_vars

\* C14: in every state score.total is score.kills - score.deaths, whatever
\* record with integer counters the storage held at start-up and whatever
\* kills, deaths, resets and restarts followed; a score reset, in any game
\* state, leaves the score {0,0,0} in memory and in storage and the game state
\* as it was.
claim_C14 ==
    /\ [](score.total = score.kills - score.deaths)
    /\ [][ResetScore => /\ score' = ZeroScore
                        /\ savedScore' = ZeroScore
                        /\ gameState' = gameState]_vars

\* C14 witness: a record with one kill was loaded, then a kill and a death
\* were added without any restart, and the game is paused
witness_C14 ==
    /\ nChannels = 1
    /\ score = [kills |-> 2, deaths |-> 1, total |-> 1]
    /\ savedScore = score
    /\ gameState = "paused"

\* C15: whenever the storage holds a corrupt record at start-up, the score is
\* {0,0,0} and the client has been started: it has opened its socket and
\* runs; a record that parses is the score.  Violated: the exception of
\* JSON.parse leaves the constructor before init().
counter_C15 ==
    /\ savedScore = CorruptRecord => score = ZeroScore /\ Started
    /\ savedScore = NoRecord => score = ZeroScore /\ Started

----------------------------------------------------------------------------
\* Viewport

\* C16: once the viewport is initialized, 0 <= viewportOffsetX <=
\* max(0, worldWidth - canvas.width) and 0 <= viewportOffsetY <=
\* max(0, worldHeight - canvas.height), after the initial centering and after
\* every resize.  Violated: updateViewport skips the clamping when the roster
\* has no local avatar, so the offset computed for the old canvas survives.
counter_C16 ==
    viewportInitialized =>
        /\ 0 <= viewportOffsetX
        /\ viewportOffsetX <= Max(0, worldWidth - canvas.width)
        /\ 0 <= viewportOffsetY
        /\ viewportOffsetY <= Max(0, worldHeight - canvas.height)

\* The offset that centers coordinate c in a canvas extent, kept inside
\* [0, world - extent]; 0 when the extent is not smaller than the world
Centered(c, world, extent) ==
    LET v == c - extent \div 2
    IN  IF world <= extent THEN 0
        ELSE IF v < 0 THEN 0
        ELSE IF v > world - extent THEN world - extent
        ELSE v

\* A join_game step of a successful join after which the roster has the
\* local player, taken while the centering guard is not set
FirstCentering(m) ==
    /\ m.success
    /\ ~viewportInitialized
    /\ HandleJoinGame(m)
    /\ Has(players', m.playerId)

\* C17: a successful join_game that finds the guard unset and leaves the
\* local player in the roster sets the guard and the offset; a join_game
\* while the guard is set changes neither; a join_game after which the roster
\* lacks the local player changes neither; the guard, once set, is cleared
\* only by a restart; and a step that changes the offset is such a first
\* centering, a resize or a restart.
claim_C17 ==
    /\ [][\A m \in JoinMessages \cup ViewJoinMessages :
            /\ FirstCentering(m)
                 => /\ viewportInitialized'
                    /\ viewportOffsetX' =
                         Centered(Get(players', m.playerId).x, worldWidth, canvas.width)
                    /\ viewportOffsetY' =
                         Centered(Get(players', m.playerId).y, worldHeight, canvas.height)
            /\ \/ UNCHANGED <<viewportInitialized, viewportOffsetX, viewportOffsetY>>
               \/ ~(viewportInitialized /\ HandleJoinGame(m))
            /\ \/ UNCHANGED <<viewportInitialized, viewportOffsetX, viewportOffsetY>>
               \/ ~(HandleJoinGame(m) /\ ~Has(players', myPlayerId'))]_vars
    /\ [][viewportInitialized /\ ~viewportInitialized' => RestartGame]_vars
    /\ [][<<viewportOffsetX, viewportOffsetY>>' # <<viewportOffsetX, viewportOffsetY>>
            => \/ \E m \in JoinMessages \cup ViewJoinMessages : FirstCentering(m)
               \/ Resize
               \/ RestartGame]_vars

\* C17 witness: the viewport was centered on the local player at (1000,1000),
\* the player has since been moved and the offset is still the centered one
witness_C17 ==
    /\ scenario = "viewport"
    /\ nChannels = 1
    /\ viewportInitialized
    /\ canvas = CanvasSize
    /\ viewportOffsetX = 600
    /\ viewportOffsetY = 700
    /\ Has(players, myPlayerId)
    /\ Get(players, myPlayerId).x = 2000
    /\ Get(players, myPlayerId).y = 0

\* C18: the initial centering leaves (0,0) when the world fits entirely in
\* the canvas; otherwise each offset is the avatar coordinate minus half the
\* canvas extent, clamped to [0, world - canvas] (0 in a dimension where the
\* canvas is not smaller than the world).  World 2048x2048, canvas 800x600,
\* local player at (1000,1000): offset (600,700).
claim_C18 ==
    [][\A m \in JoinMessages \cup ViewJoinMessages :
         FirstCentering(m) =>
            LET av == Get(players', m.playerId)
                x == av.x - canvas.width \div 2
                y == av.y - canvas.height \div 2
            IN  /\ worldWidth <= canvas.width /\ worldHeight <= canvas.height
                     => viewportOffsetX' = 0 /\ viewportOffsetY' = 0
                /\ worldWidth > canvas.width
                     => /\ viewportOffsetX' >= 0
                        /\ viewportOffsetX' <= worldWidth - canvas.width
                        /\ x \in 0..(worldWidth - canvas.width) => viewportOffsetX' = x
                        /\ x < 0 => viewportOffsetX' = 0
                        /\ x > worldWidth - canvas.width
                             => viewportOffsetX' = worldWidth - canvas.width
                /\ worldHeight > canvas.height
                     => /\ viewportOffsetY' >= 0
                        /\ viewportOffsetY' <= worldHeight - canvas.height
                        /\ y \in 0..(worldHeight - canvas.height) => viewportOffsetY' = y
                        /\ y < 0 => viewportOffsetY' = 0
                        /\ y > worldHeight - canvas.height
                             => viewportOffsetY' = worldHeight - canvas.height
                /\ canvas = [width |-> 800, height |-> 600] /\ av.x = 1000 /\ av.y = 1000
                     => viewportOffsetX' = 600 /\ viewportOffsetY' = 700]_vars

\* C18 witness: the first centering in a 1600x1200 window on the local player
\* at (2000,2000), both offsets at their upper limit
witness_C18 ==
    /\ scenario = "viewport"
    /\ viewportInitialized
    /\ canvas = [width |-> 1600, height |-> 1200]
    /\ Has(players, myPlayerId)
    /\ Get(players, myPlayerId).x = 2000
    /\ Get(players, myPlayerId).y = 2000
    /\ viewportOffsetX = 448
    /\ viewportOffsetY = 848

----------------------------------------------------------------------------
\* Message dispatch

\* C19: a message whose action tag is none of the seven known ones changes
\* nothing: roster, local player id, score, cooldown, viewport, game state,
\* connected flag, socket and timers are what they were and nothing is sent;
\* and whenever the socket is open, so after such a message too, a join_game,
\* player_joined, players_moved, player_left or player_respawned message is
\* still handled.
claim_C19 ==
    /\ [][HandleUnknownMessage => NothingButOut /\ out' = <<>>]_vars
    /\ [](websocket = "OPEN" =>
            /\ ENABLED JoinGameMessage
            /\ ENABLED PlayerJoinedMessage
            /\ ENABLED PlayersMovedMessage
            /\ ENABLED PlayerLeftMessage
            /\ ENABLED PlayerRespawnedMessage)

\* C19 witness: a state of the session scenario in which an unknown message
\* can arrive and there is something of everything to keep: a joined, paused
\* client with a roster of two, a death on the score and a key in the set
witness_C19 ==
    /\ scenario = "session"
    /\ websocket = "OPEN"
    /\ connected
    /\ gameState = "paused"
    /\ myPlayerId # NoPlayer
    /\ Len(players) = 2
    /\ score.deaths = 1
    /\ pressedKeys # {}
    /\ viewportInitialized
    /\ out = <<>>

----------------------------------------------------------------------------
\* Frame selection: two avatars with the same skin, the same isMoving and the
\* same animationFrame, each facing any way, are drawn once.

MaxAnimationFrame == 3

\* "" stands for a facing that is none of the four directions
Facings == {"north", "south", "east", "west", ""}

\* this.frames after loadAvatarFrames; a direction the skin has no images
\* for, or a skin that was never loaded, leaves the empty array
FrameSets ==
    [north : {<<>>, <<"n0">>, <<"n0", "n1">>},
     south : {<<>>, <<"s0">>, <<"s0", "s1">>},
     east : {<<>>, <<"e0">>, <<"e0", "e1", "e2">>}]

FrameAvatar(id, facing, isMoving, animationFrame) ==
    [Avatar(Snap(id, 40, 0)) EXCEPT !.facing = facing, !.isMoving = isMoving,
                                   !.animationFrame = animationFrame]

InitFrame ==
    /\ scenario = "frame"
    /\ gameState = "playing"
    /\ pressedKeys = {}
    /\ heldKeys = {}
    /\ connected = TRUE
    /\ websocket = "OPEN"
    /\ staleClosing = 0
    /\ nChannels = 1
    /\ myPlayerId = 1
    /\ attackCooldown = 0
    /\ score = ZeroScore
    /\ savedScore = NoRecord
    /\ viewportInitialized = FALSE
    /\ viewportOffsetX = 0
    /\ viewportOffsetY = 0
    /\ canvas = CanvasSize
    /\ timers = <<>>
    /\ out = <<>>
    /\ drawn = <<>>
    /\ reported = {}
    /\ \E f2 \in Facings, f3 \in Facings, m \in BOOLEAN,
          a \in 0..MaxAnimationFrame, fr \in FrameSets :
          /\ players = <<FrameAvatar(2, f2, m, a), FrameAvatar(3, f3, m, a)>>
          /\ frames = [id \in {2, 3} |-> fr]

NextFrame ==
    /\ UNCHANGED <<scenario, reported>>
    /\ RenderAvatars

SpecFrame == InitFrame /\ [][NextFrame]_vars

\* The image array getCurrentFrame is to pick from for a facing
FrameSetFor(facing, fr) ==
    IF facing = "north" THEN fr.north
    ELSE IF facing \in {"east", "west"} THEN fr.east
    ELSE fr.south

\* C20: once the avatars have been drawn: when one faces west and the other
\* east (same isMoving, same animationFrame, same skin) both got the same
\* image, west with the flip flag set and east with it unset; every avatar
\* whose image array for its facing is empty got no frame; every other one
\* got the image at index animationFrame modulo the array length when
\* moving, at index 0 when not, flipped only when facing west.
claim_C20 ==
    drawn # <<>> =>
        /\ \A i, j \in 1..Len(players) :
              players[i].facing = "west" /\ players[j].facing = "east"
                => /\ drawn[i].image = drawn[j].image
                   /\ drawn[i] # NoFrame
                        => drawn[i].flipHorizontal /\ ~drawn[j].flipHorizontal
        /\ \A i \in 1..Len(players) :
              LET av == players[i]
                  set == FrameSetFor(av.facing, frames[av.id])
                  k == IF av.isMoving THEN av.animationFrame % Len(set) ELSE 0
              IN  IF set = <<>>
                  THEN drawn[i] = NoFrame
                  ELSE /\ drawn[i].image = set[k + 1]
                       /\ drawn[i].flipHorizontal = (av.facing = "west")

\* C20 witness: a moving avatar facing west at animationFrame 3 of a
\* three-image east array got the first image flipped, the one facing east
\* the same image unflipped
witness_C20 ==
    /\ drawn # <<>>
    /\ players[1].facing = "west"
    /\ players[2].facing = "east"
    /\ players[1].isMoving
    /\ players[1].animationFrame = 3
    /\ frames[2].east = <<"e0", "e1", "e2">>
    /\ drawn[1] = [image |-> "e0", flipHorizontal |-> TRUE]
    /\ drawn[2] = [image |-> "e0", flipHorizontal |-> FALSE]

----------------------------------------------------------------------------
\* Timers across sessions, deaths, attack results, cooldown

\* The same callbacks are pending before and after the step
TimersKept ==
    /\ Len(timers') = Len(timers)
    /\ \A i \in 1..Len(timers) :
          /\ timers'[i].kind = timers[i].kind
          /\ timers'[i].targetId = timers[i].targetId
          /\ timers'[i].channel = timers[i].channel
          /\ timers'[i].answered = timers[i].answered

\* C21: a stop or a restart leaves every pending timer pending; and when a
\* fallback timer armed on an earlier socket fires while attackCooldown > 0
\* (an attack of the new session started it), the kill goes to the current
\* score, which is saved, and the timer's target is dead if the roster has
\* that id.
claim_C21 ==
    /\ [][TimersKept \/ ~(StopGame \/ RestartGame)]_vars
    /\ [][\A i \in 1..Len(timers) :
            /\ timers[i].kind = "fallback"
            /\ timers[i].channel < nChannels
            /\ attackCooldown > 0
            /\ FallbackFires(i)
            => /\ score' = AddKill(score)
               /\ savedScore' = score'
               /\ Has(players, timers[i].targetId)
                    => Get(players', timers[i].targetId).isDead]_vars

\* C21 witness: in the session after a restart one kill stands on the score
\* while the only attack answered by nobody is still waiting for its own
\* timer, the cooldown untouched since it was sent, and the target lies dead
\* with a respawn timer of this session
witness_C21 ==
    /\ nChannels = 2
    /\ attackCooldown = attackCooldownTime
    /\ score = [kills |-> 1, deaths |-> 0, total |-> 1]
    /\ savedScore = score
    /\ Len(timers) = 2
    /\ timers[1].kind = "fallback" /\ timers[1].channel = 2 /\ ~timers[1].answered
    /\ timers[2].kind = "respawn" /\ timers[2].channel = 2
    /\ Has(players, 2) /\ Get(players, 2).isDead

\* C22: while the game is playing (first socket, so no restart has happened)
\* every key in the pressed-key set is physically held down.  Violated:
\* handleKeyUp returns at once while paused or stopped, so a key released
\* during a pause is still in the set after the resume.
counter_C22 ==
    gameState = "playing" /\ nChannels = 1 => pressedKeys \subseteq heldKeys

\* C23: every avatar the server reported dead, and for which no
\* player_respawned has arrived since, is dead as long as it is in the
\* roster.  Violated: the respawn timer armed by simulatePlayerDeath clears
\* isDead three seconds later whatever the server has reported meanwhile.
counter_C23 ==
    \A id \in reported : Has(players, id) => Get(players, id).isDead

\* C24: an attack result that is not a success with the kill flag set leaves
\* the score and the roster (so every dead flag) as they were.  Violated: a
\* success without the kill flag calls addKill and simulatePlayerDeath.
counter_C24 ==
    [][\A m \in AttackMessages :
         ~(m.success /\ m.kill) /\ HandleAttack(m)
            => score' = score /\ savedScore' = savedScore /\ players' = players]_vars

\* C25: attackCooldown is always within 0..1000; a step that raises it hands
\* an attack action to a socket that accepts it and leaves the cooldown at
\* exactly 1000; a render tick leaves it at max(0, cooldown - 16), never
\* higher than before; a restart leaves it at 0.
claim_C25 ==
    /\ [](attackCooldown \in 0..attackCooldownTime)
    /\ [][attackCooldown' > attackCooldown
            => /\ attackCooldown' = attackCooldownTime
               /\ \E k \in 1..Len(out') : /\ out'[k].action = "attack"
                                          /\ out'[k].readyState # "CONNECTING"]_vars
    /\ [][Update => /\ attackCooldown' <= attackCooldown
                    /\ attackCooldown' =
                         (IF attackCooldown >= FrameStep
                          THEN attackCooldown - FrameStep ELSE 0)]_vars
    /\ [][RestartGame => attackCooldown' = 0]_vars

\* C25 witness: 62 ticks after an attack the cooldown is at 8, one tick from
\* being floored, and the game has been stopped meanwhile
witness_C25 ==
    /\ attackCooldown = 8
    /\ gameState = "stopped"
    /\ nChannels = 1

----------------------------------------------------------------------------
\* The render loop under fair scheduling: the callback of startRenderLoop
\* asks for the next animation frame every time it runs, whatever the game
\* state, so a tick that can change something is eventually taken.

InitTick == Constructed /\ scenario = "combat"

NextTick ==
    \/ InCombat /\ CanvasClick
    \/ InCombat /\ FallbackTimerFires
    \/ InCombat /\ RespawnTimerFires
    \/ InCombat /\ AttackMessage
    \/ InCombat /\ TogglePause
    \/ InCombat /\ StopGame
    \/ InCombat /\ RestartGame
    \/ InCombat /\ Update
    \/ InCombat /\ SocketOpen
    \/ InCombat /\ SocketClose
    \/ InCombat /\ StaleSocketClose
    \/ InCombat /\ JoinGameMessage

SpecTick == InitTick /\ [][NextTick]_vars /\ WF_vars(InCombat /\ Update)

\* C26: whenever attackCooldown > 0 it is 0 again later, in every game
\* state.
claim_C26 == (attackCooldown > 0) ~> (attackCooldown = 0)

\* C26 witness: the game is paused and the cooldown of an attack, whose
\* fallback timer is still pending, has been ticked down to 0
witness_C26 ==
    /\ gameState = "paused"
    /\ attackCooldown = 0
    /\ Len(timers) = 1
    /\ timers[1].kind = "fallback"
    /\ ~timers[1].answered
    /\ score = ZeroScore
    /\ nChannels = 1

----------------------------------------------------------------------------
\* Roster messages

\* Every players_moved message some scenario delivers
MovedMessages ==
    DeathMovedMessages \cup {<<Snap(2, 100, 0), Snap(3, 0, 0)>>, <<Snap(1, 2000, 0)>>}

\* C27: a players_moved message leaves the roster with the same entries in
\* the same order, each with its id, username and dead flag; an avatar the
\* message has a snapshot for takes x, y, facing, isMoving and animationFrame
\* from it (0 when the snapshot has no animationFrame), every other avatar is
\* untouched; score, cooldown, viewport, game state, local id, socket and
\* timers are what they were.
claim_C27 ==
    [][\A pds \in MovedMessages :
         HandlePlayersMoved(pds) =>
            /\ Len(players') = Len(players)
            /\ \A i \in 1..Len(players) :
                  LET old == players[i]
                      new == players'[i]
                      ks == {k \in 1..Len(pds) : pds[k].id = old.id}
                  IN  /\ new.id = old.id
                      /\ new.username = old.username
                      /\ new.isDead = old.isDead
                      /\ ks = {} => new = old
                      /\ \A k \in ks :
                            /\ new.x = pds[k].x
                            /\ new.y = pds[k].y
                            /\ new.facing = pds[k].facing
                            /\ new.isMoving = pds[k].isMoving
                            /\ new.animationFrame =
                                 (IF pds[k].animationFrame = Undefined
                                  THEN 0 ELSE pds[k].animationFrame)
            /\ UNCHANGED <<score, savedScore, attackCooldown, viewportOffsetX,
                           viewportOffsetY, viewportInitialized, gameState,
                           myPlayerId, connVars, timers>>]_vars

\* C27 witness: player 2, dead, has been moved by a snapshot that also names
\* it differently: position, facing, movement and frame are the snapshot's,
\* the name and the dead flag are the old ones, and unknown player 3 is not
\* in the roster
witness_C27 ==
    /\ Len(players) = 2
    /\ Has(players, 2) /\ ~Has(players, 3)
    /\ Get(players, 2) = [id |-> 2, username |-> "player", x |-> 70, y |-> 90,
                          facing |-> "west", isMoving |-> TRUE,
                          animationFrame |-> 5, isDead |-> TRUE]

\* C28: a player_joined message for an id the roster already has, reported
\* dead by the server, keeps that avatar's dead flag (steps a
\* player_respawned message would take as well are left aside).  Violated: handlePlayerJoined constructs a new Avatar
\* every time, and a new Avatar is alive.
counter_C28 ==
    [][/\ Has(players, 2)
       /\ 2 \in reported
       /\ HandlePlayerJoined(Snap(2, 40, 0))
       /\ ~HandlePlayerRespawned(2, 40, 0)
       => Get(players', 2).isDead = Get(players, 2).isDead]_vars
====
